---- MODULE Spec2Model ----
(***************************************************************************)
(* A model of core_stability_analyzer.py: the DmesgReader class.  Lines    *)
(* of text are TLA+ strings; the regular expressions and the string        *)
(* operations of the source are operators over those strings, computed     *)
(* character by character as Python computes them.                         *)
(***************************************************************************)
EXTENDS Integers, Sequences, FiniteSets, TLC

VARIABLES
    pc,         \* control point of DmesgReader.__init__ and its callees
    error,      \* the exception that ended the run, "none" while there is none
    boots,      \* self.boots
    logs,       \* self.logs
    lb_lines,   \* list_boots: lines
    lb_i,       \* list_boots: number of lines the for loop has taken
    lb_boots,   \* list_boots: boots (the local list)
    entries,    \* create_dmesg_history: entries
    bi,         \* create_dmesg_history: number of boots the for loop has taken
    boot,       \* read_dmesg_logs / parse_log_line: boot
    rd_lines,   \* read_dmesg_logs: lines
    rd_i,       \* read_dmesg_logs: number of lines the for loop has taken
    rd_logs,    \* read_dmesg_logs: logs (the local list)
    line,       \* read_dmesg_logs / parse_log_line: line
    log_entry,  \* read_dmesg_logs: log_entry
    calls       \* the journalctl --dmesg runs so far: <<[boot, stdout], ...>>

vars == <<pc, error, boots, logs, lb_lines, lb_i, lb_boots, entries, bi, boot,
          rd_lines, rd_i, rd_logs, line, log_entry, calls>>

-----------------------------------------------------------------------------
(* Bounds of the model.                                                    *)

\* lines in the output of journalctl --list-boots
MaxBootLines == 2

\* lines in the outputs of all journalctl --dmesg runs of one execution
MaxJournalLines == 3

-----------------------------------------------------------------------------
(* Characters and strings.                                                 *)

Digits == {"0", "1", "2", "3", "4", "5", "6", "7", "8", "9"}

Letters == {"a", "b", "c", "d", "e", "f", "g", "h", "i", "j", "k", "l", "m",
            "n", "o", "p", "q", "r", "s", "t", "u", "v", "w", "x", "y", "z",
            "A", "B", "C", "D", "E", "F", "G", "H", "I", "J", "K", "L", "M",
            "N", "O", "P", "Q", "R", "S", "T", "U", "V", "W", "X", "Y", "Z"}

\* \w of the re module
WordChars == Letters \cup Digits \cup {"_"}

\* \s of the re module, which is also what int() strips
SpaceChars == {" ", "\t", "\n", "\r", "\f"}

Char(s, i) == SubSeq(s, i, i)

\* s[i-1:] of Python (i counts from 1)
Tail_(s, i) == SubSeq(s, i, Len(s))

\* whether the literal lit stands in s at position i
At(s, i, lit) ==
    /\ i >= 1
    /\ i + Len(lit) - 1 <= Len(s)
    /\ SubSeq(s, i, i + Len(lit) - 1) = lit

\* the position after the longest run of characters of class cls that starts
\* at position i of s: what a greedy cls* consumes
RunEnd(s, i, cls) ==
    CHOOSE j \in i..(Len(s) + 1) :
        /\ (j = Len(s) + 1 \/ Char(s, j) \notin cls)
        /\ \A k \in i..(j - 1) : Char(s, k) \in cls

\* the position of the first occurrence of character c in s at or after i,
\* Len(s) + 1 when there is none
FindChar(s, i, c) ==
    CHOOSE j \in i..(Len(s) + 1) :
        /\ (j = Len(s) + 1 \/ Char(s, j) = c)
        /\ \A k \in i..(j - 1) : Char(s, k) # c

\* str.split(sep, 1): one piece when sep does not occur, else two
split1(s, sep) ==
    LET k == FindChar(s, 1, sep)
    IN  IF k > Len(s) THEN <<s>>
        ELSE <<SubSeq(s, 1, k - 1), Tail_(s, k + 1)>>

RECURSIVE split(_, _)
\* str.split(sep): every piece between occurrences of sep
split(s, sep) ==
    LET k == FindChar(s, 1, sep)
    IN  IF k > Len(s) THEN <<s>>
        ELSE <<SubSeq(s, 1, k - 1)>> \o split(Tail_(s, k + 1), sep)

DigitVal(c) ==
    CASE c = "0" -> 0 [] c = "1" -> 1 [] c = "2" -> 2 [] c = "3" -> 3
      [] c = "4" -> 4 [] c = "5" -> 5 [] c = "6" -> 6 [] c = "7" -> 7
      [] c = "8" -> 8 [] c = "9" -> 9

RECURSIVE DecVal(_)
\* the value of a string of decimal digits
DecVal(s) ==
    IF Len(s) = 0 THEN 0
    ELSE 10 * DecVal(SubSeq(s, 1, Len(s) - 1)) + DigitVal(Char(s, Len(s)))

AllDigits(s) == Len(s) > 0 /\ \A k \in 1..Len(s) : Char(s, k) \in Digits

\* str.strip() as int() applies it: leading and trailing whitespace removed
strip(s) ==
    LET a == RunEnd(s, 1, SpaceChars)
        b == IF a > Len(s) THEN a - 1
             ELSE CHOOSE j \in a..Len(s) :
                    /\ Char(s, j) \notin SpaceChars
                    /\ \A k \in (j + 1)..Len(s) : Char(s, k) \in SpaceChars
    IN  SubSeq(s, a, b)

\* int(s): surrounding whitespace, one optional sign, decimal digits;
\* anything else raises ValueError
int(s) ==
    LET t == strip(s)
    IN  IF AllDigits(t) THEN [tag |-> "int", val |-> DecVal(t)]
        ELSE IF Len(t) > 1 /\ Char(t, 1) \in {"-", "+"} /\ AllDigits(Tail_(t, 2))
        THEN [tag |-> "int",
              val |-> IF Char(t, 1) = "-" THEN 0 - DecVal(Tail_(t, 2))
                      ELSE DecVal(Tail_(t, 2))]
        ELSE [tag |-> "ValueError"]

None == [tag |-> "None"]

-----------------------------------------------------------------------------
(* The regular expressions.                                                *)

\* re.match(r"(\w+ \d+ \d{2}:\d{2}:\d{2}) (.+)", line).  Each + is followed
\* by a character outside its class, so the greedy run is the only match.
time_match(l) ==
    LET p1 == RunEnd(l, 1, WordChars)
        p2 == RunEnd(l, p1 + 1, Digits)
        p3 == p2 + 9
        p4 == FindChar(l, p3 + 1, "\n")
    IN  IF /\ p1 > 1
           /\ At(l, p1, " ")
           /\ p2 > p1 + 1
           /\ At(l, p2, " ")
           /\ p3 <= Len(l)
           /\ \A k \in {1, 2, 4, 5, 7, 8} : Char(l, p2 + k) \in Digits
           /\ \A k \in {3, 6} : Char(l, p2 + k) = ":"
           /\ At(l, p3, " ")
           /\ p4 > p3 + 1
        THEN [tag |-> "match",
              groups |-> <<SubSeq(l, 1, p3 - 1), SubSeq(l, p3 + 1, p4 - 1)>>]
        ELSE None

\* r"\(core (\d+), socket (\d+)\)" tried at position i of l
core_match_at(l, i) ==
    LET d1 == RunEnd(l, i + 6, Digits)
        d2 == RunEnd(l, d1 + 9, Digits)
    IN  IF /\ At(l, i, "(core ")
           /\ d1 > i + 6
           /\ At(l, d1, ", socket ")
           /\ d2 > d1 + 9
           /\ At(l, d2, ")")
        THEN [tag |-> "match",
              groups |-> <<SubSeq(l, i + 6, d1 - 1), SubSeq(l, d1 + 9, d2 - 1)>>]
        ELSE None

\* the same with r"\(core (-?\d+), socket (-?\d+)\)"
core_match_signed_at(l, i) ==
    LET s1 == IF At(l, i + 6, "-") THEN i + 7 ELSE i + 6
        d1 == RunEnd(l, s1, Digits)
        s2 == IF At(l, d1 + 9, "-") THEN d1 + 10 ELSE d1 + 9
        d2 == RunEnd(l, s2, Digits)
    IN  IF /\ At(l, i, "(core ")
           /\ d1 > s1
           /\ At(l, d1, ", socket ")
           /\ d2 > s2
           /\ At(l, d2, ")")
        THEN [tag |-> "match",
              groups |-> <<SubSeq(l, i + 6, d1 - 1), SubSeq(l, d1 + 9, d2 - 1)>>]
        ELSE None

core_match_signed(l) ==
    IF \E i \in 1..Len(l) : core_match_signed_at(l, i) # None
    THEN core_match_signed_at(l,
            CHOOSE i \in 1..Len(l) :
                /\ core_match_signed_at(l, i) # None
                /\ \A k \in 1..(i - 1) : core_match_signed_at(l, k) = None)
    ELSE None

\* re.search(r"\(core (\d+), socket (\d+)\)", line): the leftmost match
core_match(l) ==
    IF \E i \in 1..Len(l) : core_match_at(l, i) # None
    THEN core_match_at(l,
            CHOOSE i \in 1..Len(l) :
                /\ core_match_at(l, i) # None
                /\ \A k \in 1..(i - 1) : core_match_at(l, k) = None)
    ELSE None

\* re.match(r"(\s*-*\d+)", line)
num_boot(l) ==
    LET a == RunEnd(l, 1, SpaceChars)
        b == RunEnd(l, a, {"-"})
        c == RunEnd(l, b, Digits)
    IN  IF c > b THEN [tag |-> "match", groups |-> <<SubSeq(l, 1, c - 1)>>]
        ELSE None

-----------------------------------------------------------------------------
(* DmesgReader.parse_log_line.                                             *)

\* the dict of line 99
Entry(timestamp, b, source, message, core_number, socket_number) ==
    [tag |-> "dict", timestamp |-> timestamp, boot |-> b, source |-> source,
     message |-> message, core |-> core_number, socket |-> socket_number]

\* parse_log_line with the test of line 98 written core_number > 0
parse_log_line_positive(l, b) ==
    LET parts == split1(l, ":")
    IN  IF Len(parts) < 2 THEN [tag |-> "IndexError"]
        ELSE
        LET message == parts[2]
            tm == time_match(l)
            cm == core_match(l)
        IN  IF cm # None /\ tm # None
            THEN LET core_number == int(cm.groups[1]).val
                     socket_number == int(cm.groups[2]).val
                     timestamp == tm.groups[1]
                     remainder == tm.groups[2]
                     source == split1(remainder, ":")[1]
                 IN  IF core_number > 0
                     THEN Entry(timestamp, b, source, message,
                                core_number, socket_number)
                     ELSE None
            ELSE None

\* parse_log_line with the record's boot left at 0, the current boot
parse_log_line_boot0(l, b) ==
    LET parts == split1(l, ":")
    IN  IF Len(parts) < 2 THEN [tag |-> "IndexError"]
        ELSE
        LET message == parts[2]
            tm == time_match(l)
            cm == core_match(l)
        IN  IF cm # None /\ tm # None
            THEN LET core_number == int(cm.groups[1]).val
                     socket_number == int(cm.groups[2]).val
                     timestamp == tm.groups[1]
                     remainder == tm.groups[2]
                     source == split1(remainder, ":")[1]
                 IN  IF core_number >= 0
                     THEN Entry(timestamp, 0, source, message,
                                core_number, socket_number)
                     ELSE None
            ELSE None

\* The result of parse_log_line(line, boot): the dict, None, or the
\* IndexError that line.split(":", 1)[1] raises when line holds no ":".
parse_log_line(l, b) ==
    LET parts == split1(l, ":")
    IN  IF Len(parts) < 2 THEN [tag |-> "IndexError"]
        ELSE
        LET message == parts[2]
            tm == time_match(l)
            cm == core_match(l)
        IN  IF cm # None /\ tm # None
            THEN LET core_number == int(cm.groups[1]).val
                     socket_number == int(cm.groups[2]).val
                     timestamp == tm.groups[1]
                     remainder == tm.groups[2]
                     source == split1(remainder, ":")[1]
                 IN  IF core_number >= 0
                     THEN Entry(timestamp, b, source, message,
                                core_number, socket_number)
                     ELSE None
            ELSE None

-----------------------------------------------------------------------------
(* The text the two journalctl commands can print.                         *)

\* lines of journalctl --list-boots: the header, two boots, a line whose
\* digits follow two dashes, a blank line
BootListLines ==
    {"IDX BOOT ID FIRST ENTRY LAST ENTRY",
     " -1 4f2a9c Wed 2024-05-29 18:30:01 UTC",
     "  0 9c1d77 Thu 2024-05-30 07:12:44 UTC",
     "--1 4f2a9c Wed 2024-05-29 18:30:01 UTC",
     ""}

\* the sample line of parse_log_line's docstring
SampleLine ==
    "May 29 18:37:47 fedora kernel: gldriverquery[271469]: segfault at fffffffffffff000 ip 00007fd4dc38cf00 sp 00007fff8a16d590 error 5 in libLLVM.so.18.1[7fd4dc00c000+3afb000] likely on CPU 15 (core 15, socket 0)"

\* lines of journalctl --dmesg: two that match, one whose socket is written
\* negative, the line journalctl prints for an empty journal, a blank line
JournalLines ==
    {"May 29 18:37:47 fedora kernel: gld[27]: segfault (core 15, socket 0)",
     "Jun 3 08:05:09 fedora kernel: app[41]: segfault (core 0, socket 1)",
     "May 29 18:37:48 fedora kernel: app[41]: trap (core 3, socket -2)",
     "-- No entries --",
     ""}

RECURSIVE JoinLines(_)
\* the text whose lines are ls, each ended by a newline
JoinLines(ls) ==
    IF Len(ls) = 0 THEN "" ELSE Head(ls) \o "\n" \o JoinLines(Tail(ls))

SeqsUpTo(S, n) == UNION {[1..k -> S] : k \in 0..n}

\* the outputs of journalctl --list-boots
BootListings == {JoinLines(ls) : ls \in SeqsUpTo(BootListLines, MaxBootLines)}

\* the outputs of journalctl --dmesg of at most n lines
JournalTexts(n) == {JoinLines(ls) : ls \in SeqsUpTo(JournalLines, n)}

\* the number of lines of a text whose lines each end with a newline
LineCount(text) == Len(split(text, "\n")) - 1

RECURSIVE LinesRead(_)
\* the lines all journalctl --dmesg runs of cs printed
LinesRead(cs) ==
    IF Len(cs) = 0 THEN 0 ELSE LineCount(Head(cs).stdout) + LinesRead(Tail(cs))

-----------------------------------------------------------------------------
(* DmesgReader.__init__ and the methods it calls.                          *)

Init ==
    /\ pc = "list_boots"
    /\ error = "none"
    /\ boots = <<>>
    /\ logs = <<>>
    /\ lb_lines = <<>>
    /\ lb_i = 0
    /\ lb_boots = <<>>
    /\ entries = <<>>
    /\ bi = 0
    /\ boot = 0
    /\ rd_lines = <<>>
    /\ rd_i = 0
    /\ rd_logs = <<>>
    /\ line = ""
    /\ log_entry = None
    /\ calls = <<>>

\* list_boots, lines 58-60: run journalctl --list-boots, split its output
list_boots_run ==
    /\ pc = "list_boots"
    /\ \E text \in BootListings :
         lb_lines' = split(text, "\n")
    /\ lb_i' = 0
    /\ lb_boots' = <<>>
    /\ pc' = "lb_loop"
    /\ UNCHANGED <<error, boots, logs, entries, bi, boot, rd_lines, rd_i,
                   rd_logs, line, log_entry, calls>>

\* list_boots, lines 61-67: one turn of the for loop
list_boots_line ==
    /\ pc = "lb_loop"
    /\ lb_i < Len(lb_lines)
    /\ lb_i' = lb_i + 1
    /\ LET l == lb_lines[lb_i + 1]
           m == num_boot(l)
           v == int(m.groups[1])
       IN  IF l # "" /\ m # None
           THEN IF v.tag = "ValueError"
                THEN /\ pc' = "raised"
                     /\ error' = "ValueError"
                     /\ lb_boots' = lb_boots
                ELSE /\ lb_boots' = Append(lb_boots, v.val)
                     /\ UNCHANGED <<pc, error>>
           ELSE UNCHANGED <<pc, error, lb_boots>>
    /\ UNCHANGED <<boots, logs, lb_lines, entries, bi, boot, rd_lines, rd_i,
                   rd_logs, line, log_entry, calls>>

\* list_boots returns (line 68); __init__ stores self.boots (line 42) and
\* calls create_dmesg_history (line 48)
list_boots_return ==
    /\ pc = "lb_loop"
    /\ lb_i = Len(lb_lines)
    /\ boots' = lb_boots
    /\ lb_lines' = <<>>
    /\ lb_i' = 0
    /\ lb_boots' = <<>>
    /\ entries' = <<>>
    /\ bi' = 0
    /\ pc' = "create_loop"
    /\ UNCHANGED <<error, logs, boot, rd_lines, rd_i, rd_logs, line,
                   log_entry, calls>>

\* create_dmesg_history, lines 49-50: the for loop takes the next boot and
\* calls read_dmesg_logs(boot)
create_next_boot ==
    /\ pc = "create_loop"
    /\ bi < Len(boots)
    /\ bi' = bi + 1
    /\ boot' = boots[bi + 1]
    /\ pc' = "read_dmesg"
    /\ UNCHANGED <<error, boots, logs, lb_lines, lb_i, lb_boots, entries,
                   rd_lines, rd_i, rd_logs, line, log_entry, calls>>

\* read_dmesg_logs, lines 72-75: run journalctl --dmesg -b boot, split
read_dmesg_run ==
    /\ pc = "read_dmesg"
    /\ \E text \in JournalTexts(MaxJournalLines - LinesRead(calls)) :
         /\ rd_lines' = split(text, "\n")
         /\ calls' = Append(calls, [boot |-> boot, stdout |-> text])
    /\ rd_i' = 0
    /\ rd_logs' = <<>>
    /\ pc' = "rd_loop"
    /\ UNCHANGED <<error, boots, logs, lb_lines, lb_i, lb_boots, entries, bi,
                   boot, line, log_entry>>

\* read_dmesg_logs, lines 76-77: the for loop takes the next line; a blank
\* line is passed over
read_dmesg_line ==
    /\ pc = "rd_loop"
    /\ rd_i < Len(rd_lines)
    /\ rd_i' = rd_i + 1
    /\ line' = rd_lines[rd_i + 1]
    /\ pc' = IF line' # "" THEN "parse" ELSE "rd_loop"
    /\ UNCHANGED <<error, boots, logs, lb_lines, lb_i, lb_boots, entries, bi,
                   boot, rd_lines, rd_logs, log_entry, calls>>

\* the call of line 78, with the record stored by parse_log_line itself
parse_call_storing ==
    /\ pc = "parse"
    /\ LET r == parse_log_line(line, boot)
       IN  IF r.tag = "IndexError"
           THEN /\ pc' = "raised"
                /\ error' = "IndexError"
                /\ UNCHANGED <<log_entry, logs>>
           ELSE /\ log_entry' = r
                /\ logs' = IF r # None THEN Append(logs, r) ELSE logs
                /\ pc' = "parsed"
                /\ error' = error
    /\ UNCHANGED <<boots, lb_lines, lb_i, lb_boots, entries, bi, boot,
                   rd_lines, rd_i, rd_logs, line, calls>>

\* read_dmesg_logs, line 78: log_entry = self.parse_log_line(line, boot)
parse_call ==
    /\ pc = "parse"
    /\ LET r == parse_log_line(line, boot)
       IN  IF r.tag = "IndexError"
           THEN /\ pc' = "raised"
                /\ error' = "IndexError"
                /\ log_entry' = log_entry
           ELSE /\ log_entry' = r
                /\ pc' = "parsed"
                /\ error' = error
    /\ UNCHANGED <<boots, logs, lb_lines, lb_i, lb_boots, entries, bi, boot,
                   rd_lines, rd_i, rd_logs, line, calls>>

\* lines 79-80 with the entry put at the front of the list
read_dmesg_prepend ==
    /\ pc = "parsed"
    /\ rd_logs' = IF log_entry # None THEN <<log_entry>> \o rd_logs
                  ELSE rd_logs
    /\ pc' = "rd_loop"
    /\ UNCHANGED <<error, boots, logs, lb_lines, lb_i, lb_boots, entries, bi,
                   boot, rd_lines, rd_i, line, log_entry, calls>>

\* read_dmesg_logs, lines 79-80: if log_entry: logs.append(log_entry)
read_dmesg_append ==
    /\ pc = "parsed"
    /\ rd_logs' = IF log_entry # None THEN Append(rd_logs, log_entry)
                  ELSE rd_logs
    /\ pc' = "rd_loop"
    /\ UNCHANGED <<error, boots, logs, lb_lines, lb_i, lb_boots, entries, bi,
                   boot, rd_lines, rd_i, line, log_entry, calls>>

\* read_dmesg_logs returns (line 81); create_dmesg_history extends entries
\* with a non-empty result (lines 51-52)
read_dmesg_return ==
    /\ pc = "rd_loop"
    /\ rd_i = Len(rd_lines)
    /\ entries' = IF Len(rd_logs) > 0 THEN entries \o rd_logs ELSE entries
    /\ rd_lines' = <<>>
    /\ rd_i' = 0
    /\ rd_logs' = <<>>
    /\ pc' = "create_loop"
    /\ UNCHANGED <<error, boots, logs, lb_lines, lb_i, lb_boots, bi, boot,
                   line, log_entry, calls>>

\* create_dmesg_history returns (line 53); __init__ stores self.logs
\* (line 43)
create_return ==
    /\ pc = "create_loop"
    /\ bi = Len(boots)
    /\ logs' = entries
    /\ entries' = <<>>
    /\ bi' = 0
    /\ pc' = "done"
    /\ UNCHANGED <<error, boots, lb_lines, lb_i, lb_boots, boot, rd_lines,
                   rd_i, rd_logs, line, log_entry, calls>>

Next ==
    \/ list_boots_run
    \/ list_boots_line
    \/ list_boots_return
    \/ create_next_boot
    \/ read_dmesg_run
    \/ read_dmesg_line
    \/ parse_call
    \/ read_dmesg_append
    \/ read_dmesg_return
    \/ create_return

\* one execution of the program: dmesg_logs = DmesgReader()
Spec == Init /\ [][Next]_vars

-----------------------------------------------------------------------------
(* parse_log_line on its own, over a wider set of lines.                   *)

\* how a line may start: a timestamp, a timestamp with no seconds, a
\* dmesg-style uptime stamp, nothing
LinePrefixes ==
    {"May 29 18:37:47 ", "Jun 3 08:05:09 ", "May 29 18:37 ", "[ 12.5] ", ""}

LineMiddles ==
    {"fedora kernel: gld[27]: segfault at f0 ",
     "fedora kernel: EXT4-fs mounted ",
     "kernel panic ",
     ""}

\* how a line may end: with the core/socket pattern, with something close
\* to it, with two patterns, with nothing
LineSuffixes ==
    {"likely on CPU 15 (core 15, socket 0)",
     "(core 0, socket 1)",
     "(core -1, socket 0)",
     "(core 3, socket -2)",
     "(core 3 socket 0)",
     "(core 2, socket 0) (core 7, socket 1)",
     ""}

\* the non-blank lines parse_log_line is given
ParseLines ==
    ({p \o m \o x : p \in LinePrefixes, m \in LineMiddles, x \in LineSuffixes}
        \cup JournalLines \cup {SampleLine}) \ {""}

ParseBoots == {-2, -1, 0}

InitParse ==
    /\ pc = "parse"
    /\ error = "none"
    /\ boots = <<>>
    /\ logs = <<>>
    /\ lb_lines = <<>>
    /\ lb_i = 0
    /\ lb_boots = <<>>
    /\ entries = <<>>
    /\ bi = 0
    /\ boot \in ParseBoots
    /\ rd_lines = <<>>
    /\ rd_i = 0
    /\ rd_logs = <<>>
    /\ line \in ParseLines
    /\ log_entry = None
    /\ calls = <<>>

NextParse == parse_call

\* one call of parse_log_line(line, boot)
SpecParse == InitParse /\ [][NextParse]_vars

-----------------------------------------------------------------------------
(* What the claims speak of, stated without the operators above.           *)

Range(f) == {f[i] : i \in DOMAIN f}

\* the text "(core <digits>, socket <digits>)" stands in l at position i,
\* with a digits in the first number and b in the second
PatternAt(l, i, a, b) ==
    /\ At(l, i, "(core ")
    /\ i + 5 + a <= Len(l)
    /\ AllDigits(SubSeq(l, i + 6, i + 5 + a))
    /\ At(l, i + 6 + a, ", socket ")
    /\ i + 14 + a + b <= Len(l)
    /\ AllDigits(SubSeq(l, i + 15 + a, i + 14 + a + b))
    /\ At(l, i + 15 + a + b, ")")

\* l contains the core/socket pattern at position i
PatternStartsAt(l, i) ==
    /\ At(l, i, "(core ")
    /\ \E a \in 1..Len(l) :
         /\ At(l, i + 6 + a, ", socket ")
         /\ \E b \in 1..Len(l) : PatternAt(l, i, a, b)

\* l contains the core/socket pattern
HasCorePattern(l) == \E i \in 1..Len(l) : PatternStartsAt(l, i)

\* where the leftmost pattern of l starts
FirstPattern(l) ==
    CHOOSE i \in 1..Len(l) :
        /\ PatternStartsAt(l, i)
        /\ \A k \in 1..(i - 1) : ~PatternStartsAt(l, k)

\* the digits of the first number of the leftmost pattern of l
CoreDigits(l) ==
    LET i == FirstPattern(l)
        a == CHOOSE a \in 1..Len(l) :
                /\ At(l, i + 6 + a, ", socket ")
                /\ AllDigits(SubSeq(l, i + 6, i + 5 + a))
    IN  SubSeq(l, i + 6, i + 5 + a)

\* the digits of its second number
SocketDigits(l) ==
    LET i == FirstPattern(l) + 15 + Len(CoreDigits(l))
        b == CHOOSE b \in 1..Len(l) :
                /\ At(l, i + b, ")")
                /\ AllDigits(SubSeq(l, i, i + b - 1))
    IN  SubSeq(l, i, i + b - 1)

\* the two integers written in the leftmost pattern of l
WrittenCore(l) == DecVal(CoreDigits(l))

WrittenSocket(l) == DecVal(SocketDigits(l))

\* l starts "<word> <digits> dd:dd:dd " and goes on after that
StartsWithTimestamp(l) ==
    \E a \in 1..Len(l) :
        /\ At(l, a + 1, " ")
        /\ \A k \in 1..a : Char(l, k) \in WordChars
        /\ \E b \in 1..Len(l) :
             /\ At(l, a + b + 2, " ")
             /\ AllDigits(SubSeq(l, a + 2, a + b + 1))
             /\ a + b + 12 <= Len(l)
             /\ LET t == SubSeq(l, a + b + 3, a + b + 11)
                IN  /\ \A k \in {1, 2, 4, 5, 7, 8} : Char(t, k) \in Digits
                    /\ Char(t, 3) = ":"
                    /\ Char(t, 6) = ":"
                    /\ Char(t, 9) = " "
                    /\ Char(l, a + b + 12) # "\n"

\* the call of parse_log_line has ended, by returning or by raising
Called == pc \in {"parsed", "raised"}

-----------------------------------------------------------------------------
(* The claims about parse_log_line, checked under SpecParse.               *)

\* C1: for every non-blank line and every boot index parse_log_line
\* completes without raising an error: it returns a record or None.
C1_ParseNeverRaises == Called => (pc = "parsed" /\ error = "none")

\* C2, as claimed: for any line that contains the core/socket pattern,
\* whatever the rest of the line looks like, a call that returns returns a
\* record, never None, whose core and socket are the integers written in the
\* pattern and whose boot is the boot argument.
C2_PatternGivesRecord ==
    (pc = "parsed" /\ HasCorePattern(line)) =>
        /\ log_entry.tag = "dict"
        /\ log_entry.core = WrittenCore(line)
        /\ log_entry.socket = WrittenSocket(line)
        /\ log_entry.boot = boot

\* C2, amended: for any line that contains the core/socket pattern and
\* starts with a timestamp "<word> <digits> dd:dd:dd " followed by at least
\* one more character, parse_log_line raises nothing and returns a record
\* whose core and socket are the integers written in the leftmost pattern
\* and whose boot is the boot argument.
C2_TimestampedPatternGivesRecord ==
    (Called /\ HasCorePattern(line) /\ StartsWithTimestamp(line)) =>
        /\ pc = "parsed"
        /\ log_entry.tag = "dict"
        /\ log_entry.core = WrittenCore(line)
        /\ log_entry.socket = WrittenSocket(line)
        /\ log_entry.boot = boot

\* a timestamped line whose pattern names core 0 has been parsed into a record
C2_Witness ==
    /\ pc = "parsed"
    /\ HasCorePattern(line)
    /\ StartsWithTimestamp(line)
    /\ WrittenCore(line) = 0
    /\ log_entry.tag = "dict"
    /\ boot = -2

\* C3: for any line that does not contain the core/socket pattern,
\* parse_log_line returns None.
C3_NoPatternGivesNone ==
    (Called /\ ~HasCorePattern(line)) => (pc = "parsed" /\ log_entry = None)

\* C4: the source field of a record is the token naming the offending
\* process: for the docstring's sample line, "gldriverquery[271469]".
C4_SourceIsProcess ==
    (pc = "parsed" /\ line = SampleLine /\ log_entry.tag = "dict") =>
        log_entry.source = "gldriverquery[271469]"

\* C5: the fields of a record do not overlap: timestamp, a space, source,
\* a colon and message put together give the line back.
C5_FieldsRebuildLine ==
    (pc = "parsed" /\ log_entry.tag = "dict") =>
        log_entry.timestamp \o " " \o log_entry.source \o ":"
            \o log_entry.message = line

-----------------------------------------------------------------------------
(* The claims about a whole run, checked under Spec.                       *)

\* the line of JournalLines whose pattern is written with a negative socket
NegativeSocketLine ==
    "May 29 18:37:48 fedora kernel: app[41]: trap (core 3, socket -2)"

\* C6: every record of the collected logs has a non-negative integer core
\* and a non-negative integer socket.
C6_NonNegative ==
    \A i \in 1..Len(logs) : logs[i].core \in Nat /\ logs[i].socket \in Nat

\* a run has ended with records collected, one of its journals holding a
\* line whose socket is written as a negative number
C6_Witness ==
    /\ pc = "done"
    /\ Len(logs) >= 1
    /\ \E i \in 1..Len(calls) :
         NegativeSocketLine \in Range(split(calls[i].stdout, "\n"))

\* the records line l contributes when read for boot b: one when it is a
\* matching line, none when it is not
RecordsOfLine(l, b) ==
    IF l = "" THEN <<>>
    ELSE LET r == parse_log_line(l, b)
         IN  IF r.tag = "dict" THEN <<r>> ELSE <<>>

RECURSIVE RecordsOf(_, _)
\* the records of the lines ls, in the order of the lines
RecordsOf(ls, b) ==
    IF Len(ls) = 0 THEN <<>>
    ELSE RecordsOfLine(Head(ls), b) \o RecordsOf(Tail(ls), b)

RECURSIVE RecordsByBoot(_, _)
\* the records of the journals cs, read for the boots bs, boot after boot
RecordsByBoot(bs, cs) ==
    IF Len(bs) = 0 THEN <<>>
    ELSE RecordsOf(split(Head(cs).stdout, "\n"), Head(bs))
            \o RecordsByBoot(Tail(bs), Tail(cs))

\* C7: the collected logs are an ordered list: the records stand grouped by
\* boot in the order list_boots gave the boots, and within a boot in the
\* order of the lines of that boot's journal; a matching line contributes
\* exactly one record and a boot with no matching line contributes none.
C7_OrderedByBootThenLine ==
    pc = "done" =>
        /\ Len(calls) = Len(boots)
        /\ logs = RecordsByBoot(boots, calls)

\* a run over two different boots has ended with two different records of
\* the first boot followed by a record of the second
C7_Witness ==
    /\ pc = "done"
    /\ Len(boots) = 2
    /\ boots[1] # boots[2]
    /\ Len(logs) = 3
    /\ logs[1].boot = boots[1]
    /\ logs[2].boot = boots[1]
    /\ logs[1].core # logs[2].core
    /\ logs[3].boot = boots[2]

\* the line just parsed is the line parsed before it in the same journal
SameLineAgain ==
    /\ pc = "parsed"
    /\ rd_i >= 2
    /\ rd_lines[rd_i] = rd_lines[rd_i - 1]

SignedStart(l) ==
    LET a == RunEnd(l, 1, SpaceChars)
        s == IF At(l, a, "-") THEN a + 1 ELSE a
        e == RunEnd(l, s, Digits)
    IN  IF e > s
        THEN <<IF s > a THEN 0 - DecVal(SubSeq(l, s, e - 1))
               ELSE DecVal(SubSeq(l, s, e - 1))>>
        ELSE <<>>

RECURSIVE BootsListed(_)
\* one integer per line of ls that starts with one, in the order of ls
BootsListed(ls) ==
    IF Len(ls) = 0 THEN <<>>
    ELSE SignedStart(Head(ls)) \o BootsListed(Tail(ls))

\* C9: list_boots returns, in listing order, one signed integer for every
\* line that starts with optional whitespace, an optional "-" and digits,
\* and skips every other line without raising an error, also when a line
\* begins with more than one "-" before the digits.
C9_ListBootsSkipsQuietly ==
    /\ error # "ValueError"
    /\ (pc = "lb_loop" /\ lb_i = Len(lb_lines)) =>
            lb_boots = BootsListed(lb_lines)

\* C10: every record carries the index of the boot whose journal its line
\* was read from, so the boot fields of the collected logs all occur in
\* self.boots, and each enumerated boot is read exactly once per run, a
\* boot listed twice being read twice.
C10_BootFieldIsBootRead ==
    /\ \A i \in 1..Len(logs) : logs[i].boot \in Range(boots)
    /\ \A i \in 1..Len(entries) : entries[i].boot \in Range(SubSeq(boots, 1, bi))
    /\ pc \in {"rd_loop", "parse", "parsed"} =>
         /\ calls[Len(calls)].boot = boot
         /\ \A i \in 1..Len(rd_logs) : rd_logs[i].boot = boot
    /\ pc \in {"create_loop", "done"} =>
         [i \in 1..Len(calls) |-> calls[i].boot] = SubSeq(boots, 1, Len(calls))
    /\ pc = "done" => Len(calls) = Len(boots)

\* a run has ended in which one boot, not the current one, was listed twice
\* and each of its two readings gave a record
C10_Witness ==
    /\ pc = "done"
    /\ Len(boots) = 2
    /\ boots[1] = boots[2]
    /\ boots[1] # 0
    /\ Len(logs) = 2
    /\ calls[1].stdout = calls[2].stdout

====
